---- MODULE Spec2Model ----
(***************************************************************************)
(* Model of wiki_converter.py: the one-shot conversion pipeline            *)
(*   main -> process_wikipedia_html -> embed_offline_resources             *)
(*        -> generate_html -> write                                        *)
(* and of the client script that generate_html puts into the document.     *)
(*                                                                         *)
(* Python strings are sequences of one-character strings, so that          *)
(* startswith / endswith / find / split act on the characters themselves.  *)
(* The only opaque symbols are the base64 payloads of fetched resources.   *)
(***************************************************************************)
EXTENDS Integers, Sequences, FiniteSets, TLC

\* ------------------------------------------------------------------ strings

\* str.startswith
StartsWith(s, p) == Len(s) >= Len(p) /\ SubSeq(s, 1, Len(p)) = p

\* str.endswith
EndsWith(s, p) == Len(s) >= Len(p) /\ SubSeq(s, Len(s) - Len(p) + 1, Len(s)) = p

\* s[i:] for a 0-based i
Drop(s, i) == SubSeq(s, i + 1, Len(s))

\* s[:i] for a 0-based i
Take(s, i) == SubSeq(s, 1, i)

\* str.find(c) + 1: the 1-based place of the first c in s, 0 when there is none
Find(s, c) ==
  IF \E i \in 1..Len(s) : s[i] = c
  THEN CHOOSE i \in 1..Len(s) : s[i] = c /\ \A j \in 1..(i - 1) : s[j] # c
  ELSE 0

\* sub in s
Contains(s, sub) ==
  \E i \in 0..(Len(s) - Len(sub)) : SubSeq(s, i + 1, i + Len(sub)) = sub

LowerLetters ==
  {"a", "b", "c", "d", "e", "f", "g", "h", "i", "j", "k", "l", "m",
   "n", "o", "p", "q", "r", "s", "t", "u", "v", "w", "x", "y", "z"}

UpperToLower ==
  [c \in {"A", "E", "F", "G", "H", "K", "O", "P", "R", "S", "T"} |->
     CASE c = "A" -> "a" [] c = "E" -> "e" [] c = "F" -> "f" [] c = "G" -> "g"
       [] c = "H" -> "h" [] c = "K" -> "k" [] c = "O" -> "o" [] c = "P" -> "p"
       [] c = "R" -> "r" [] c = "S" -> "s" [] c = "T" -> "t"]

UpperLetters == DOMAIN UpperToLower

Digits == {"0", "1", "2", "3", "4", "5", "6", "7", "8", "9"}

\* str.lower
Lower(s) == [i \in 1..Len(s) |-> IF s[i] \in UpperLetters THEN UpperToLower[s[i]] ELSE s[i]]

\* str.split(c); i is the place of the first c
RECURSIVE SplitAt(_, _, _)
SplitAt(s, c, i) ==
  IF i = 0 THEN <<s>>
  ELSE <<Take(s, i - 1)>> \o SplitAt(Drop(s, i), c, Find(Drop(s, i), c))

Split(s, c) == SplitAt(s, c, Find(s, c))

\* c.join(parts)
RECURSIVE Join(_, _)
Join(parts, c) ==
  IF Len(parts) = 0 THEN <<>>
  ELSE IF Len(parts) = 1 THEN parts[1]
  ELSE parts[1] \o <<c>> \o Join(Tail(parts), c)

\* ------------------------------------------------------- urllib.parse.urljoin

HTTP == <<"h", "t", "t", "p">>                                  \* 'http'
HTTPS == <<"h", "t", "t", "p", "s">>                            \* 'https'
HTTP_SLASHES == <<"h", "t", "t", "p", ":", "/", "/">>           \* 'http://'
HTTPS_SLASHES == <<"h", "t", "t", "p", "s", ":", "/", "/">>     \* 'https://'
HTTPS_COLON == <<"h", "t", "t", "p", "s", ":">>                 \* 'https:'
FTP == <<"f", "t", "p">>                                        \* 'ftp'
FILE == <<"f", "i", "l", "e">>                                  \* 'file'

\* the schemes of urllib's uses_relative / uses_netloc that the inputs can name
UsesRelative == {<<>>, HTTP, HTTPS, FTP, FILE}
UsesNetloc == {<<>>, HTTP, HTTPS, FTP, FILE}

SchemeChars == LowerLetters \cup UpperLetters \cup Digits \cup {"+", "-", "."}

\* urlsplit's scheme test: a ':' after a non-empty run of scheme characters
\* that starts with a letter
SchemeEndAt(url, i) ==
  IF /\ i > 1
     /\ url[1] \in LowerLetters \cup UpperLetters
     /\ \A j \in 1..(i - 1) : url[j] \in SchemeChars
  THEN i ELSE 0

SchemeEnd(url) == SchemeEndAt(url, Find(url, ":"))

HasScheme(url) == SchemeEnd(url) > 0

\* the first of '/', '?', '#' in s (1-based), Len(s) + 1 when there is none
NetlocEnd(s) ==
  IF \E i \in 1..Len(s) : s[i] \in {"/", "?", "#"}
  THEN CHOOSE i \in 1..Len(s) :
         s[i] \in {"/", "?", "#"} /\ \A j \in 1..(i - 1) : s[j] \notin {"/", "?", "#"}
  ELSE Len(s) + 1

\* urlparse, last step: the query is what follows the first '?' (at q)
ParseQueryAt(scheme, netloc, rest, fragment, q) ==
  [scheme |-> scheme, netloc |-> netloc,
   path |-> IF q > 0 THEN Take(rest, q - 1) ELSE rest,
   query |-> IF q > 0 THEN Drop(rest, q) ELSE <<>>,
   fragment |-> fragment]

\* urlparse: the fragment is what follows the first '#' (at h)
ParseFragmentAt(scheme, netloc, rest, h) ==
  ParseQueryAt(scheme, netloc, IF h > 0 THEN Take(rest, h - 1) ELSE rest,
               IF h > 0 THEN Drop(rest, h) ELSE <<>>,
               Find(IF h > 0 THEN Take(rest, h - 1) ELSE rest, "?"))

\* urlparse: the netloc is what follows '//' up to the first of '/', '?', '#' (at n)
ParseNetlocAt(scheme, afterSlashes, n) ==
  ParseFragmentAt(scheme, Take(afterSlashes, n - 1), Drop(afterSlashes, n - 1),
                  Find(Drop(afterSlashes, n - 1), "#"))

\* urlparse: what follows the scheme
ParseRest(scheme, rest) ==
  IF StartsWith(rest, <<"/", "/">>)
  THEN ParseNetlocAt(scheme, Drop(rest, 2), NetlocEnd(Drop(rest, 2)))
  ELSE ParseFragmentAt(scheme, <<>>, rest, Find(rest, "#"))

\* urlparse: the scheme, lower-cased, ends before place e
ParseSchemeAt(url, default, e) ==
  ParseRest(IF e > 0 THEN Lower(Take(url, e - 1)) ELSE default,
            IF e > 0 THEN Drop(url, e) ELSE url)

\* urlparse(url, default_scheme): scheme, netloc, path, query, fragment
UrlParse(url, default) == ParseSchemeAt(url, default, SchemeEnd(url))

\* urlunparse: '//' + netloc + path, a '/' put before a path that lacks it
WithNetloc(p) ==
  IF p.netloc # <<>> \/ (p.scheme # <<>> /\ p.scheme \in UsesNetloc
                         /\ ~StartsWith(p.path, <<"/", "/">>))
  THEN <<"/", "/">> \o p.netloc
       \o (IF p.path # <<>> /\ p.path[1] # "/" THEN <<"/">> ELSE <<>>)
       \o p.path
  ELSE p.path

WithScheme(url, scheme) == IF scheme # <<>> THEN scheme \o <<":">> \o url ELSE url
WithQuery(url, query) == IF query # <<>> THEN url \o <<"?">> \o query ELSE url
WithFragment(url, fragment) == IF fragment # <<>> THEN url \o <<"#">> \o fragment ELSE url

\* urlunparse
UrlUnparse(p) ==
  WithFragment(WithQuery(WithScheme(WithNetloc(p), p.scheme), p.query), p.fragment)

\* segments[1:-1] = filter(None, segments[1:-1])
DropEmptyMiddle(segs) ==
  IF Len(segs) <= 2 THEN segs
  ELSE <<segs[1]>> \o SelectSeq(SubSeq(segs, 2, Len(segs) - 1), LAMBDA x : x # <<>>)
       \o <<segs[Len(segs)]>>

\* the loop over segments that removes '.' and '..'
RECURSIVE RemoveDots(_, _)
RemoveDots(segs, acc) ==
  IF Len(segs) = 0 THEN acc
  ELSE IF segs[1] = <<".", ".">>
       THEN RemoveDots(Tail(segs), IF Len(acc) > 0 THEN Take(acc, Len(acc) - 1) ELSE acc)
  ELSE IF segs[1] = <<".">> THEN RemoveDots(Tail(segs), acc)
  ELSE RemoveDots(Tail(segs), Append(acc, segs[1]))

\* urljoin: the base path without its last segment, unless that is empty
BaseParts(parts) ==
  IF parts[Len(parts)] # <<>> THEN Take(parts, Len(parts) - 1) ELSE parts

\* urljoin: '/'.join(resolved_path) or '/'
PathOrSlash(joined) == IF joined = <<>> THEN <<"/">> ELSE joined

\* urljoin: the dots resolved; a last segment '.' or '..' leaves a trailing '/'
ResolveSegments(segments) ==
  PathOrSlash(Join(IF segments[Len(segments)] \in {<<".">>, <<".", ".">>}
                   THEN Append(RemoveDots(segments, <<>>), <<>>)
                   ELSE RemoveDots(segments, <<>>), "/"))

\* urljoin: the path of the reference merged with the path of the base
MergePaths(bpath, path) ==
  CHOOSE resolved \in
    {ResolveSegments(segments) :
       segments \in {IF path[1] = "/" THEN Split(path, "/")
                     ELSE DropEmptyMiddle(BaseParts(Split(bpath, "/")) \o Split(path, "/"))}} : TRUE

\* urljoin, once base (b) and reference (u) are parsed and the netloc chosen
JoinPath(b, u, netloc) ==
  IF u.path = <<>>
  THEN UrlUnparse([scheme |-> u.scheme, netloc |-> netloc, path |-> b.path,
                   query |-> IF u.query = <<>> THEN b.query ELSE u.query,
                   fragment |-> u.fragment])
  ELSE UrlUnparse([scheme |-> u.scheme, netloc |-> netloc,
                   path |-> MergePaths(b.path, u.path),
                   query |-> u.query, fragment |-> u.fragment])

JoinParsed(url, b, u) ==
  IF u.scheme # b.scheme \/ u.scheme \notin UsesRelative THEN url
  ELSE IF u.scheme \in UsesNetloc /\ u.netloc # <<>> THEN UrlUnparse(u)
  ELSE JoinPath(b, u, IF u.scheme \in UsesNetloc THEN b.netloc ELSE u.netloc)

\* the reference is parsed once, with the scheme of the base as its default
JoinParsedBase(url, b) ==
  CHOOSE joined \in {JoinParsed(url, b, u) : u \in {UrlParse(url, b.scheme)}} : TRUE

\* urljoin(base, url)
UrlJoin(base, url) ==
  IF base = <<>> THEN url
  ELSE IF url = <<>> THEN base
  ELSE CHOOSE joined \in {JoinParsedBase(url, b) : b \in {UrlParse(base, <<>>)}} : TRUE

\* ------------------------------------------------------------- the document

\* the value of an attribute the element does not have
Absent == <<"<absent>">>

\* An element of the parsed tree. The tree is kept as the sequence of its elements
\* in document order; `inside` names the removable ancestor the element lies in
\* ("" for none), `inHead` says the element lies in <head>. orig_href, orig_src
\* and orig_css record the values the element had first, for the properties.
El(tag) ==
  [tag |-> tag, rel |-> "", cls |-> "", role |-> "", id |-> "",
   href |-> Absent, src |-> Absent, boundary |-> Absent, onclick |-> Absent,
   text |-> <<>>, css |-> <<>>, inside |-> "", inHead |-> FALSE,
   orig_href |-> Absent, orig_src |-> Absent, orig_css |-> <<>>]

Anchor(href) == [El("a") EXCEPT !.href = href, !.orig_href = href]
Img(src) == [El("img") EXCEPT !.src = src, !.orig_src = src]
Link(rel, href) == [El("link") EXCEPT !.rel = rel, !.href = href, !.orig_href = href]
Script(src, text) == [El("script") EXCEPT !.src = src, !.orig_src = src, !.text = text]
Style(css) == [El("style") EXCEPT !.css = css, !.orig_css = css]
H1(cls, id, text) == [El("h1") EXCEPT !.cls = cls, !.id = id, !.text = text]

\* the known origin of lines 135, 145, 156, 184, 214, 84
WIKI_ORIGIN ==
  <<"h", "t", "t", "p", "s", ":", "/", "/", "e", "n", ".", "w", "i", "k", "i",
    "p", "e", "d", "i", "a", ".", "o", "r", "g">>
WIKI_PREFIX == <<"/", "w", "i", "k", "i", "/">>                 \* '/wiki/'

\* -------------------------------------------------- process_wikipedia_html

\* lines 118-123: the title by the prioritized lookup
TitleText(els) ==
  LET byClass == SelectSeq(els, LAMBDA e : e.tag = "h1" /\ e.cls = "firstHeading")
      byId == SelectSeq(els, LAMBDA e : e.tag = "h1" /\ e.id = "firstHeading")
      anyH1 == SelectSeq(els, LAMBDA e : e.tag = "h1")
  IN  IF Len(byClass) > 0 THEN byClass[1].text
      ELSE IF Len(byId) > 0 THEN byId[1].text
      ELSE IF Len(anyH1) > 0 THEN anyH1[1].text
      ELSE <<"Wikipedia Article">>

\* lines 134-137 (the same three lines at 144-147, 155-158 and 183-186)
MakeAbsolute(url, source) ==
  IF StartsWith(url, <<"/">>) THEN WIKI_ORIGIN \o url
  ELSE IF ~StartsWith(url, HTTP) THEN UrlJoin(source, url)
  ELSE url

\* lines 130-159: the three loops over the head
ProcessHeadElement(e, source) ==
  IF e.tag = "link" /\ e.href # Absent
  THEN IF e.rel = "stylesheet"
       THEN [e EXCEPT !.href = MakeAbsolute(MakeAbsolute(e.href, source), source)]
       ELSE [e EXCEPT !.href = MakeAbsolute(e.href, source)]
  ELSE IF e.tag = "script" /\ e.src # Absent
  THEN [e EXCEPT !.src = MakeAbsolute(e.src, source)]
  ELSE e

ANALYTICS == <<"a", "n", "a", "l", "y", "t", "i", "c", "s">>    \* 'analytics'
TRACKER == <<"t", "r", "a", "c", "k", "e", "r">>                \* 'tracker'
GOOGLE == <<"g", "o", "o", "g", "l", "e">>                      \* 'google'

\* script.get('src', '')
SrcOrEmpty(e) == IF e.src = Absent THEN <<>> ELSE e.src

\* lines 176-180: the two tests that remove a body script
IsTrackingScript(e) ==
  LET src == Lower(SrcOrEmpty(e))
      text == Lower(e.text)
  IN  \/ Contains(src, ANALYTICS) \/ Contains(src, TRACKER) \/ Contains(src, GOOGLE)
      \/ (e.text # <<>> /\ (Contains(text, ANALYTICS) \/ Contains(text, TRACKER)))

\* lines 182-187: a script that stays and has a src gets it made absolute
ProcessBodyScript(e, source) ==
  IF e.tag = "script" /\ SrcOrEmpty(e) # <<>>
  THEN [e EXCEPT !.src = MakeAbsolute(e.src, source)]
  ELSE e

DenyClasses == {"navbox", "printfooter", "mw-authority-control", "noprint"}

\* lines 190-203: the elements the deny-list names
IsDenied(e) ==
  \/ e.tag = "span" /\ e.cls \in {"mw-editsection", "mw-editsection-bracket"}
  \/ e.tag = "div" /\ e.cls \in DenyClasses
  \/ e.tag = "div" /\ e.role = "navigation"

\* lines 216 and 222: the text of the onclick attribute
OnclickText(url, type) ==
  <<"showBoundaryWarning(", "'">> \o url \o <<"'", ", ", "'", type, "'", "); return false;">>

\* RewriteLink with the article links resolved against the source URL
RewriteLinkAgainstSource(e, source) ==
  LET href == e.href
  IN  IF StartsWith(href, <<"#">>) THEN e
      ELSE IF StartsWith(href, WIKI_PREFIX)
      THEN [e EXCEPT !.boundary = UrlJoin(source, href),
                     !.onclick = OnclickText(UrlJoin(source, href), "wikipedia"),
                     !.href = Absent]
      ELSE IF \/ StartsWith(href, HTTP_SLASHES) \/ StartsWith(href, HTTPS_SLASHES)
              \/ StartsWith(href, <<"/", "/">>)
      THEN [e EXCEPT !.boundary = IF StartsWith(href, HTTP) THEN href ELSE HTTPS_COLON \o href,
                     !.onclick = OnclickText(IF StartsWith(href, HTTP) THEN href
                                             ELSE HTTPS_COLON \o href, "external"),
                     !.href = Absent]
      ELSE IF ~StartsWith(href, HTTP)
      THEN [e EXCEPT !.href = UrlJoin(source, href)]
      ELSE e

\* RewriteLink without the test of line 209: a fragment link is resolved like
\* any other relative reference
RewriteLinkNoFragmentCase(e, source) ==
  LET href == e.href
  IN  IF StartsWith(href, WIKI_PREFIX)
      THEN [e EXCEPT !.boundary = WIKI_ORIGIN \o href,
                     !.onclick = OnclickText(WIKI_ORIGIN \o href, "wikipedia"),
                     !.href = Absent]
      ELSE IF \/ StartsWith(href, HTTP_SLASHES) \/ StartsWith(href, HTTPS_SLASHES)
              \/ StartsWith(href, <<"/", "/">>)
      THEN [e EXCEPT !.boundary = IF StartsWith(href, HTTP) THEN href ELSE HTTPS_COLON \o href,
                     !.onclick = OnclickText(IF StartsWith(href, HTTP) THEN href
                                             ELSE HTTPS_COLON \o href, "external"),
                     !.href = Absent]
      ELSE IF ~StartsWith(href, HTTP)
      THEN [e EXCEPT !.href = UrlJoin(source, href)]
      ELSE e

\* lines 207-226: one anchor that has an href
RewriteLink(e, source) ==
  LET href == e.href
  IN  IF StartsWith(href, <<"#">>) THEN e
      ELSE IF StartsWith(href, WIKI_PREFIX)
      THEN LET wiki_url == WIKI_ORIGIN \o href
           IN  [e EXCEPT !.boundary = wiki_url,
                         !.onclick = OnclickText(wiki_url, "wikipedia"),
                         !.href = Absent]
      ELSE IF \/ StartsWith(href, HTTP_SLASHES) \/ StartsWith(href, HTTPS_SLASHES)
              \/ StartsWith(href, <<"/", "/">>)
      THEN LET external_url == IF StartsWith(href, HTTP) THEN href ELSE HTTPS_COLON \o href
           IN  [e EXCEPT !.boundary = external_url,
                         !.onclick = OnclickText(external_url, "external"),
                         !.href = Absent]
      ELSE IF ~StartsWith(href, HTTP)
      THEN [e EXCEPT !.href = UrlJoin(source, href)]
      ELSE e

\* lines 229-235: one img that has a src
RewriteImg(e, source) ==
  LET src == e.src
  IN  IF StartsWith(src, <<"/", "/">>) THEN [e EXCEPT !.src = HTTPS_COLON \o src]
      ELSE IF ~StartsWith(src, HTTP) THEN [e EXCEPT !.src = UrlJoin(source, src)]
      ELSE e

\* a loop that rewrites the elements f selects, in place
MapSeq(els, F(_)) == [i \in 1..Len(els) |-> F(els[i])]

\* ------------------------------------------------- embed_offline_resources

\* What a server can answer: the names of response bodies. "" is the empty body,
\* "bin" bytes that are not UTF-8 text, the others UTF-8 style sheets.
\* download_resource returns None (the request raised) or the base64 text of
\* the body; the base64 text of a non-empty body b is the one symbol b, that of
\* the empty body is the empty string.
None == <<"<None>">>

\* line 23: base64.b64encode(response.content).decode('utf-8')
Base64Encode(body) == IF body = "" THEN <<>> ELSE <<body>>

\* `if css_data:` / `if img_data:` / `if font_data:`
Truthy(data) == data # None /\ data # <<>>

\* a url(...) reference of a style sheet, and any other CSS text
CssUrl(quote, url) == [kind |-> "url", quote |-> quote, url |-> url]
CssText(name) == [kind |-> "text", quote |-> "", url |-> <<name>>]

FONT_A_WOFF2 == <<"f", "o", "n", "t", "s", "/", "a", ".", "w", "o", "f", "f", "2">> \* 'fonts/a.woff2'
FONT_B_TTF == <<"/", "f", "/", "b", ".", "t", "t", "f">>        \* '/f/b.ttf'
FONT_C_OFF == <<"c", ".", "o", "f", "f">>                       \* 'c.off'
FONT_D_WF2 == <<"/", "f", "/", "d", ".", "w", "f", "2">>        \* '/f/d.wf2'
FONT_E_DATA == <<"d", "a", "t", "a", ":", "x", ".", "t", "f">>  \* 'data:x.tf'

\* line 45: base64.b64decode(css_data).decode('utf-8'); Utf8 says whether it raises
Utf8(data) == data # <<"bin">>
DecodeCss(data) ==
  IF data = <<"css_fonts">>
  THEN <<CssText("@font-face{src:"), CssUrl("'", FONT_C_OFF), CssText("}")>>
  ELSE <<CssText("body{margin:0}")>>

\* line 79: the extensions \.[wot]f[f2]? accepts
FontRegexExts ==
  UNION {{<<".", x, "f">>, <<".", x, "f", "f">>, <<".", x, "f", "2">>} : x \in {"w", "o", "t"}}

\* line 79: does url\(['"]?([^'")]+\.[wot]f[f2]?)['"]?\) match the reference
FontRegexMatch(tok) ==
  /\ tok.kind = "url"
  /\ \A i \in 1..Len(tok.url) : tok.url[i] \notin {"'", "\"", ")"}
  /\ \E ext \in FontRegexExts : EndsWith(tok.url, ext) /\ Len(tok.url) > Len(ext)

\* line 79: re.findall, the captured urls in order of appearance
FontUrls(css) ==
  LET hits == SelectSeq(css, FontRegexMatch)
  IN  [i \in 1..Len(hits) |-> hits[i].url]

DATA_COLON == <<"d", "a", "t", "a", ":">>                       \* 'data:'
BASE64_SEP == <<";", "b", "a", "s", "e", "6", "4", ",">>        \* ';base64,'

\* lines 82-86
FullFontUrl(font_url) ==
  IF StartsWith(font_url, <<"/">>) THEN WIKI_ORIGIN \o font_url
  ELSE IF ~StartsWith(font_url, HTTP) THEN UrlJoin(WIKI_ORIGIN, font_url)
  ELSE font_url

\* lines 92-101
FontMediaType(font_url) ==
  IF EndsWith(font_url, <<".", "w", "o", "f", "f", "2">>)
  THEN <<"f", "o", "n", "t", "/", "w", "o", "f", "f", "2">>
  ELSE IF EndsWith(font_url, <<".", "w", "o", "f", "f">>)
  THEN <<"f", "o", "n", "t", "/", "w", "o", "f", "f">>
  ELSE IF EndsWith(font_url, <<".", "t", "t", "f">>)
  THEN <<"f", "o", "n", "t", "/", "t", "t", "f">>
  ELSE IF EndsWith(font_url, <<".", "o", "t", "f">>)
  THEN <<"f", "o", "n", "t", "/", "o", "t", "f">>
  ELSE <<"f", "o", "n", "t", "/", "w", "o", "f", "f">>

\* lines 60-69
ImageMediaType(src) ==
  IF EndsWith(src, <<".", "j", "p", "g">>) \/ EndsWith(src, <<".", "j", "p", "e", "g">>)
  THEN <<"i", "m", "a", "g", "e", "/", "j", "p", "e", "g">>
  ELSE IF EndsWith(src, <<".", "p", "n", "g">>)
  THEN <<"i", "m", "a", "g", "e", "/", "p", "n", "g">>
  ELSE IF EndsWith(src, <<".", "g", "i", "f">>)
  THEN <<"i", "m", "a", "g", "e", "/", "g", "i", "f">>
  ELSE IF EndsWith(src, <<".", "s", "v", "g">>)
  THEN <<"i", "m", "a", "g", "e", "/", "s", "v", "g", "+", "x", "m", "l">>
  ELSE <<"i", "m", "a", "g", "e", "/", "j", "p", "e", "g">>

\* lines 71 and 103: f"data:{media_type};base64,{data}"
DataUri(media_type, data) == DATA_COLON \o media_type \o BASE64_SEP \o data

\* css_content.replace(f"url({q}{old}{q})", f"url({q}{new}{q})") for one quoting q
ReplaceUrl(css, q, old, new) ==
  [i \in 1..Len(css) |->
     IF css[i].kind = "url" /\ css[i].quote = q /\ css[i].url = old
     THEN [css[i] EXCEPT !.url = new] ELSE css[i]]

\* lines 104-106: the three replacements, single-quoted, double-quoted, unquoted
SubstituteFont(css, font_url, data_uri) ==
  ReplaceUrl(ReplaceUrl(ReplaceUrl(css, "'", font_url, data_uri),
                        "\"", font_url, data_uri),
             "", font_url, data_uri)

\* lines 36-37: the places of the stylesheet links that have an href
StylesheetPlaces(els) ==
  SelectSeq([i \in 1..Len(els) |-> i],
            LAMBDA i : els[i].tag = "link" /\ els[i].rel = "stylesheet" /\ els[i].href # Absent)

\* lines 53-54: the places of the images that have a src
ImagePlaces(els) ==
  SelectSeq([i \in 1..Len(els) |-> i], LAMBDA i : els[i].tag = "img" /\ els[i].src # Absent)

\* line 75: the places of the style elements
StylePlaces(els) == SelectSeq([i \in 1..Len(els) |-> i], LAMBDA i : els[i].tag = "style")

\* EmbedStylesheetElement with the link of a failed fetch replaced by an empty style
EmbedStylesheetElementDropFailed(link, css_data) ==
  IF Truthy(css_data) /\ Utf8(css_data)
  THEN [Style(DecodeCss(css_data)) EXCEPT !.orig_href = link.orig_href]
  ELSE [Style(<<>>) EXCEPT !.orig_href = link.orig_href]

\* lines 41-49: what a stylesheet link becomes, given what download_resource returned
EmbedStylesheetElement(link, css_data) ==
  IF Truthy(css_data) /\ Utf8(css_data)
  THEN [Style(DecodeCss(css_data)) EXCEPT !.orig_href = link.orig_href]
  ELSE link

\* lines 58-71: what an image becomes, given what download_resource returned
EmbedImageElement(img, img_data) ==
  IF Truthy(img_data)
  THEN [img EXCEPT !.src = DataUri(ImageMediaType(img.src), img_data)]
  ELSE img

\* lines 81-106: the style text after one font url, given what download_resource returned
EmbedFontUrl(css, font_url, font_data) ==
  IF ~StartsWith(font_url, DATA_COLON) /\ Truthy(font_data)
  THEN SubstituteFont(css, font_url, DataUri(FontMediaType(font_url), font_data))
  ELSE css

\* ------------------------------------------------------------ generate_html

\* the tags str(head) puts around the head's children, and those of the template
HeadOpen == El("<head>")
HeadClose == El("</head>")

\* lines 256-381: the fixed interception stylesheet
BoundaryCss == [El("style") EXCEPT !.id = "boundary_css"]

\* lines 386-401: the modal markup
BoundaryModal == [El("div") EXCEPT !.id = "boundaryModal", !.cls = "modal-overlay"]

\* Lines 403-461: the script of the template. boundary_modal is a plain string
\* literal (line 384 has no f prefix and the text is never formatted), so every
\* brace pair the template writes doubled is emitted doubled. The sites list
\* every place the template opens braces, with the position the brace is in.
ScriptBraceSites ==
  {[line |-> 406, position |-> "statement"], [line |-> 409, position |-> "statement"],
   [line |-> 412, position |-> "statement"], [line |-> 421, position |-> "statement"],
   [line |-> 426, position |-> "statement"], [line |-> 427, position |-> "statement"],
   [line |-> 434, position |-> "statement"], [line |-> 436, position |-> "statement"],
   [line |-> 439, position |-> "statement"], [line |-> 441, position |-> "statement"],
   [line |-> 442, position |-> "expression"], [line |-> 449, position |-> "statement"],
   [line |-> 450, position |-> "statement"], [line |-> 456, position |-> "statement"],
   [line |-> 457, position |-> "statement"]}

\* the braces one site of the template has in the written document: two, as
\* written, unless the literal were formatted
EmittedBraces(formatted) == IF formatted THEN 1 ELSE 2

\* line 384: the literal is not an f-string
ModalIsFormatted == FALSE

\* JavaScript: "{{ ... }}" is a block inside a block where a statement may stand,
\* and a syntax error where an expression (the object literal of line 442) must
\* stand; a script with a syntax error is not run at all.
ScriptParses ==
  \A site \in ScriptBraceSites :
    site.position = "expression" => EmittedBraces(ModalIsFormatted) = 1

BoundaryScript == [El("script") EXCEPT !.id = "boundary_script"]

\* line 465: data['head_content'].replace('</head>', f'{boundary_css}</head>')
RECURSIVE InjectCss(_)
InjectCss(head_content) ==
  IF Len(head_content) = 0 THEN <<>>
  ELSE (IF head_content[1] = HeadClose THEN <<BoundaryCss, HeadClose>>
        ELSE <<head_content[1]>>) \o InjectCss(Tail(head_content))

\* lines 467-473: the document
GenerateHtml(head_content, body_content) ==
  <<El("<!DOCTYPE html>"), El("<html>")>> \o InjectCss(head_content)
  \o <<El("<body>")>> \o body_content
  \o <<BoundaryModal, BoundaryScript, El("</body>"), El("</html>")>>

\* ------------------------------------------------------------------- main

PROG == <<"wiki_converter.py">>
OFFLINE_FLAG == <<"-", "-", "o", "f", "f", "l", "i", "n", "e">>  \* '--offline'
DEFAULT_OUTPUT == <<"fake_wiki_page.html">>                      \* line 490
OUT_HTML == <<"o", "u", "t", ".", "h", "t", "m", "l">>           \* 'out.html'
SAVED_HTML == <<"s", "a", "v", "e", "d", ".", "h", "t", "m", "l">> \* 'saved.html'
URL_SITE ==                                                      \* 'https://site/dir/'
  <<"h", "t", "t", "p", "s", ":", "/", "/", "s", "i", "t", "e", "/", "d", "i", "r", "/">>
URL_WIKI ==                                      \* 'https://en.wikipedia.org/wiki/Python'
  WIKI_ORIGIN \o <<"/", "w", "i", "k", "i", "/", "P", "y", "t", "h", "o", "n">>

\* line 494: is the input argument a URL
IsUrlInput(input) == StartsWith(input, HTTP_SLASHES) \/ StartsWith(input, HTTPS_SLASHES)

\* lines 500-518: how acquiring the input can end
AcquireOutcomes(input) ==
  IF IsUrlInput(input) THEN {"ok", "RequestException"}
  ELSE {"ok", "FileNotFoundError", "IOError", "UnicodeDecodeError"}

\* lines 503 and 512
SourceUrl(input) == IF IsUrlInput(input) THEN input ELSE WIKI_ORIGIN

Range(f) == {f[i] : i \in DOMAIN f}

\* ------------------------------------------------------------------ inputs

MaxAnchors == 2
MaxOpens == 2

HREF_FRAGMENT == <<"#", "s", "e", "c", "t", "i", "o", "n">>                \* '#section'
HREF_WIKI == <<"/", "w", "i", "k", "i", "/", "F", "o", "o">>               \* '/wiki/Foo'
HREF_HTTPS == HTTPS_SLASHES \o <<"e", "x", ".", "c", "o", "m", "/", "x">>  \* 'https://ex.com/x'
HREF_HTTP == HTTP_SLASHES \o <<"e", "x", ".", "c", "o", "m", "/", "x">>    \* 'http://ex.com/x'
HREF_SCHEME_REL == <<"/", "/", "e", "x", ".", "c", "o", "m", "/", "x">>    \* '//ex.com/x'
HREF_RELATIVE == <<"p", "a", "g", "e", "2", ".", "h", "t", "m", "l">>      \* 'page2.html'
HREF_FTP == <<"f", "t", "p", ":", "/", "/", "e", "x", ".", "c", "o", "m", "/", "x">> \* 'ftp://ex.com/x'
HREF_MAILTO == <<"m", "a", "i", "l", "t", "o", ":", "a", "@", "b", ".", "c">> \* 'mailto:a@b.c'
HREF_HTTP_NAME ==                                                          \* 'http-guide.html'
  <<"h", "t", "t", "p", "-", "g", "u", "i", "d", "e", ".", "h", "t", "m", "l">>
HREF_DOTDOT == <<".", ".", "/", "u", "p", ".", "h", "t", "m", "l">>        \* '../up.html'
HREF_ROOT == <<"/", "w", "/", "i", "n", "d", "e", "x", ".", "p", "h", "p">> \* '/w/index.php'

HrefSamples ==
  {HREF_FRAGMENT, HREF_WIKI, HREF_HTTPS, HREF_HTTP, HREF_SCHEME_REL, HREF_RELATIVE,
   HREF_FTP, HREF_MAILTO, HREF_HTTP_NAME, HREF_DOTDOT, HREF_ROOT, <<>>}

SRC_SCHEME_REL == <<"/", "/", "u", "p", ".", "o", "r", "g", "/", "a", ".", "p", "n", "g">> \* '//up.org/a.png'
SRC_RELATIVE == <<"i", "m", "g", "/", "a", ".", "g", "i", "f">>            \* 'img/a.gif'
SRC_ABSOLUTE == HTTPS_SLASHES \o <<"u", "p", ".", "o", "r", "g", "/", "a", ".", "j", "p", "g">> \* 'https://up.org/a.jpg'
SRC_HTTP_NAME == <<"h", "t", "t", "p", "-", "l", "o", "g", "o", ".", "s", "v", "g">> \* 'http-logo.svg'
SRC_ROOT == <<"/", "s", "t", "a", "t", "i", "c", "/", "a", ".", "w", "e", "b", "p">> \* '/static/a.webp'

SrcSamples == {SRC_SCHEME_REL, SRC_RELATIVE, SRC_ABSOLUTE, SRC_HTTP_NAME, SRC_ROOT}

HEAD_SCHEME_REL == <<"/", "/", "h", "o", "s", "t", "/", "x", ".", "c", "s", "s">> \* '//host/x.css'
HEAD_ROOT == <<"/", "w", "/", "l", "o", "a", "d", ".", "c", "s", "s">>     \* '/w/load.css'
HEAD_RELATIVE == <<"s", "k", "i", "n", ".", "c", "s", "s">>                \* 'skin.css'
HEAD_ABSOLUTE == HTTPS_SLASHES \o <<"c", "d", "n", ".", "o", "r", "g", "/", "a", ".", "c", "s", "s">> \* 'https://cdn.org/a.css'
HEAD_FRAGMENT == <<"#", "t", "o", "p">>                                    \* '#top'
HEAD_DATA == <<"d", "a", "t", "a", ":", ",", "x">>                         \* 'data:,x'

HeadUrlSamples ==
  {HEAD_SCHEME_REL, HEAD_ROOT, HEAD_RELATIVE, HEAD_ABSOLUTE, HEAD_FRAGMENT, HEAD_DATA}

SCRIPT_TRACKING ==                                                         \* 'https://cdn.org/GA/tracker.js'
  HTTPS_SLASHES \o <<"c", "d", "n", ".", "o", "r", "g", "/", "G", "A", "/">> \o TRACKER \o <<".", "j", "s">>
SCRIPT_START == <<"/", "w", "/", "s", "t", "a", "r", "t", ".", "j", "s">>  \* '/w/start.js'

\* the style texts of the inputs: the three quotings of one real font, fonts of
\* the extensions the pattern of line 79 accepts, the same url written twice
CssSamples ==
  {<<CssText("@font-face{src:"), CssUrl("'", FONT_A_WOFF2), CssUrl("\"", FONT_A_WOFF2),
     CssUrl("", FONT_A_WOFF2), CssText("}")>>,
   <<CssUrl("'", FONT_B_TTF), CssText(";"), CssUrl("", FONT_D_WF2)>>,
   <<CssUrl("'", FONT_C_OFF), CssUrl("\"", FONT_C_OFF), CssUrl("", FONT_C_OFF)>>,
   <<CssUrl("'", FONT_C_OFF), CssText(";"), CssUrl("", FONT_D_WF2)>>,
   <<CssUrl("", FONT_E_DATA), CssUrl("", FONT_D_WF2)>>,
   <<>>}

\* A document: what the parser makes of the input. hasHead and hasBody say
\* whether the input has a <head> and a <body> element.
Doc(hasHead, head, hasBody, body) ==
  [hasHead |-> hasHead, head |-> head, hasBody |-> hasBody, body |-> body]

DefaultHead ==
  <<Link("stylesheet", HEAD_ROOT), Link("icon", HEAD_RELATIVE), Script(SCRIPT_START, <<>>),
    Style(<<CssUrl("'", FONT_C_OFF), CssText(";"), CssUrl("", FONT_A_WOFF2)>>)>>

DefaultBody ==
  <<H1("", "firstHeading", <<"Test">>), Anchor(HREF_WIKI), Anchor(HREF_FRAGMENT),
    Img(SRC_SCHEME_REL), Script(SCRIPT_TRACKING, <<>>), El("noscript"),
    [Img(SRC_RELATIVE) EXCEPT !.inside = "noscript"],
    [El("div") EXCEPT !.cls = "navbox"],
    [Anchor(HREF_HTTPS) EXCEPT !.inside = "denied"],
    [El("span") EXCEPT !.cls = "mw-editsection"]>>

DefaultDoc == Doc(TRUE, DefaultHead, TRUE, DefaultBody)

\* sequences of 1..n elements of S
SeqsUpTo(S, n) == UNION {[1..k -> S] : k \in 1..n}

LinkDocs ==
  {Doc(TRUE, <<>>, TRUE, [i \in 1..Len(hs) |-> Anchor(hs[i])]) : hs \in SeqsUpTo(HrefSamples, MaxAnchors)}

ImgDocs == {Doc(TRUE, <<>>, TRUE, <<Img(src), El("img")>>) : src \in SrcSamples}

HeadDocs ==
  {Doc(TRUE, <<Link(rel, u), Script(u, <<>>), Script(Absent, <<"x=1">>)>>, TRUE, <<>>) :
     rel \in {"stylesheet", "icon"}, u \in HeadUrlSamples}

StyleDocs == {Doc(TRUE, <<Style(css)>>, TRUE, <<>>) : css \in CssSamples}

SCRIPT_GOOGLE_SRC ==                                                       \* 'https://www.Google.com/a.js'
  HTTPS_SLASHES \o <<"w", "w", "w", ".", "G", "o", "o", "g", "l", "e", ".", "c", "o", "m", "/", "a", ".", "j", "s">>
SCRIPT_RELATIVE == <<"a", "p", "p", ".", "j", "s">>                         \* 'app.js'
TEXT_GOOGLE == GOOGLE \o <<"(", ")">>                                       \* 'google()'
TEXT_ANALYTICS == <<"A", "n", "a", "l", "y", "t", "i", "c", "s", "(", ")">> \* 'Analytics()'
TEXT_PLAIN == <<"i", "n", "i", "t", "(", ")">>                              \* 'init()'

ScriptSrcSamples == {Absent, SCRIPT_TRACKING, SCRIPT_GOOGLE_SRC, SCRIPT_START, SCRIPT_RELATIVE}
ScriptTextSamples == {<<>>, TEXT_GOOGLE, TEXT_ANALYTICS, TEXT_PLAIN}

\* one script in the body, beside a tracking script in the head; and the same
\* head in a document that has no <body>
ScriptDocs ==
  {Doc(TRUE, <<Script(SCRIPT_TRACKING, <<>>)>>, TRUE, <<Script(src, text)>>) :
     src \in ScriptSrcSamples, text \in ScriptTextSamples}
  \cup {Doc(TRUE, <<Script(SCRIPT_TRACKING, <<>>), Script(Absent, TEXT_ANALYTICS)>>, FALSE,
            <<Script(SCRIPT_RELATIVE, <<>>)>>)}

StructDocs ==
  {Doc(FALSE, <<>>, TRUE, <<Anchor(HREF_WIKI), Img(SRC_RELATIVE)>>),
   Doc(TRUE, <<Link("stylesheet", HEAD_ROOT)>>, FALSE, <<Anchor(HREF_WIKI)>>),
   Doc(FALSE, <<>>, FALSE, <<Anchor(HREF_HTTPS)>>)}

ArgvSamples ==
  {<<PROG>>, <<PROG, URL_SITE>>, <<PROG, URL_WIKI, OUT_HTML>>, <<PROG, URL_SITE, OFFLINE_FLAG>>,
   <<PROG, SAVED_HTML, OUT_HTML, OFFLINE_FLAG>>, <<PROG, SAVED_HTML>>,
   <<PROG, URL_SITE, OFFLINE_FLAG, OUT_HTML>>}

\* the runs: every command line on the default document, and the other
\* documents on-line and off-line
Runs ==
  (ArgvSamples \X {DefaultDoc})
  \cup ({<<PROG, URL_SITE>>, <<PROG, URL_WIKI, OUT_HTML>>, <<PROG, SAVED_HTML>>} \X LinkDocs)
  \cup ({<<PROG, URL_SITE>>, <<PROG, SAVED_HTML, OUT_HTML, OFFLINE_FLAG>>}
        \X (ImgDocs \cup HeadDocs \cup StyleDocs \cup StructDocs))
  \cup ({<<PROG, URL_SITE>>} \X ScriptDocs)

\* the bodies a server can answer a style sheet, an image or a font request with
Bodies(kind) == IF kind = "css" THEN {"", "bin", "css_plain", "css_fonts"} ELSE {"", "bin"}

\* lines 15-26: what download_resource can return
Downloads(kind) == {None} \cup {Base64Encode(b) : b \in Bodies(kind)}

\* ------------------------------------------------------------------- state

VARIABLES
  argv,          \* sys.argv
  page,          \* the document the URL or the file holds
  pc,            \* where the run is
  exit_status,   \* -1 while running, then the exit status
  input_source, output_file, offline,      \* main's locals, lines 489-491
  source_url,    \* lines 503, 512
  title_text, head, body,                  \* process_wikipedia_html: the tree
  head_content, body_content,              \* the two serialized fragments
  todo,          \* the find_all list the embedder is looping over (places)
  css_content,   \* line 77: the text of the style being rewritten
  font_urls,     \* line 79: the font urls still to fetch for it
  fetches,       \* every download_resource call so far and what it returned
  html,          \* line 524
  out_file,      \* the output file: <<>> until written, then <<[path, content]>>
  scriptLoaded,  \* browser: did the document's script run
  pendingUrl, modalActive, targetLink, modalHeading,   \* the script's state
  opened,        \* the urls window.open was called with
  lastShown,     \* the destination of the last boundary marker invoked
  dismissed,     \* has a dismissal followed it
  scroll         \* what the last click on a fragment link did

mainVars == <<argv, page, exit_status, input_source, output_file, offline, source_url>>
treeVars == <<title_text, head, body, head_content, body_content>>
embedVars == <<todo, css_content, font_urls, fetches>>
clientVars ==
  <<scriptLoaded, pendingUrl, modalActive, targetLink, modalHeading, opened, lastShown,
    dismissed, scroll>>
vars == <<pc, mainVars, treeVars, embedVars, html, out_file, clientVars>>

Null == <<"<null>">>

Init ==
  /\ \E run \in Runs : argv = run[1] /\ page = run[2]
  /\ pc = "main"
  /\ exit_status = -1
  /\ input_source = <<>> /\ output_file = <<>> /\ offline = FALSE
  /\ source_url = <<>>
  /\ title_text = <<>> /\ head = <<>> /\ body = <<>>
  /\ head_content = <<>> /\ body_content = <<>>
  /\ todo = <<>> /\ css_content = <<>> /\ font_urls = <<>> /\ fetches = <<>>
  /\ html = <<>>
  /\ out_file = <<>>
  /\ scriptLoaded = FALSE
  /\ pendingUrl = Null /\ modalActive = FALSE /\ targetLink = <<>> /\ modalHeading = "wikipedia"
  /\ opened = <<>> /\ lastShown = Null /\ dismissed = FALSE /\ scroll = "none"

\* ---------------------------------------------------------- main, the run

\* lines 478-491
ParseArgs ==
  /\ pc = "main"
  /\ IF Len(argv) < 2
     THEN /\ pc' = "exit"
          /\ exit_status' = 1
          /\ UNCHANGED <<input_source, output_file, offline>>
     ELSE /\ input_source' = argv[2]
          /\ output_file' = IF Len(argv) > 2 THEN argv[3] ELSE DEFAULT_OUTPUT
          /\ offline' = (OFFLINE_FLAG \in Range(argv))
          /\ pc' = "acquire"
          /\ UNCHANGED exit_status
  /\ UNCHANGED <<argv, page, source_url, treeVars, embedVars, html, out_file, clientVars>>

\* AfterAcquire without the sys.exit(1) of the handlers
AfterAcquireFallThrough(outcome) == "process"

\* what lines 504-518 do with the way acquiring ended: every failure ends the
\* run (sys.exit(1); an uncaught UnicodeDecodeError ends it with status 1 too)
AfterAcquire(outcome) == IF outcome = "ok" THEN "process" ELSE "exit"

\* lines 494-518
AcquireInput ==
  /\ pc = "acquire"
  /\ \E outcome \in AcquireOutcomes(input_source) :
       /\ pc' = AfterAcquire(outcome)
       /\ IF outcome = "ok"
          THEN source_url' = SourceUrl(input_source) /\ UNCHANGED exit_status
          ELSE exit_status' = 1 /\ UNCHANGED source_url
  /\ UNCHANGED <<argv, page, input_source, output_file, offline, treeVars, embedVars,
                 html, out_file, clientVars>>

\* lines 115-161: parse, title, head
ProcessHead ==
  /\ pc = "process"
  /\ title_text' = TitleText(page.head \o page.body)
  /\ head' = IF page.hasHead
             THEN MapSeq(page.head, LAMBDA e : ProcessHeadElement(e, source_url))
             ELSE <<>>
  /\ head_content' = IF page.hasHead THEN <<HeadOpen>> \o head' \o <<HeadClose>> ELSE <<>>
  /\ pc' = "clean"
  /\ UNCHANGED <<mainVars, body, body_content, embedVars, html, out_file, clientVars>>

\* lines 164-166: the body, or the whole tree when the input has no <body>
BodyOf(doc, processedHead) ==
  IF doc.hasBody THEN doc.body
  ELSE (IF doc.hasHead
        THEN <<HeadOpen>> \o MapSeq(processedHead, LAMBDA e : [e EXCEPT !.inHead = TRUE])
             \o <<HeadClose>>
        ELSE <<>>) \o doc.body

\* lines 169-203: noscript, scripts, the deny-list
CleanElements(els, source) ==
  LET noNoscript == SelectSeq(els, LAMBDA e : e.tag # "noscript" /\ e.inside # "noscript")
      noTracking == SelectSeq(noNoscript, LAMBDA e : ~(e.tag = "script" /\ IsTrackingScript(e)))
      scripts == MapSeq(noTracking, LAMBDA e : ProcessBodyScript(e, source))
  IN  SelectSeq(scripts, LAMBDA e : ~IsDenied(e) /\ e.inside # "denied")

CleanBody ==
  /\ pc = "clean"
  /\ body' = CleanElements(BodyOf(page, head), source_url)
  /\ pc' = "links"
  /\ UNCHANGED <<mainVars, title_text, head, head_content, body_content, embedVars,
                 html, out_file, clientVars>>

\* lines 206-226
ProcessLinks ==
  /\ pc = "links"
  /\ body' = MapSeq(body, LAMBDA e : IF e.tag = "a" /\ e.href # Absent
                                     THEN RewriteLink(e, source_url) ELSE e)
  /\ pc' = "images"
  /\ UNCHANGED <<mainVars, title_text, head, head_content, body_content, embedVars,
                 html, out_file, clientVars>>

\* lines 229-235
ProcessImages ==
  /\ pc = "images"
  /\ body' = MapSeq(body, LAMBDA e : IF e.tag = "img" /\ e.src # Absent
                                     THEN RewriteImg(e, source_url) ELSE e)
  /\ pc' = "serialize"
  /\ UNCHANGED <<mainVars, title_text, head, head_content, body_content, embedVars,
                 html, out_file, clientVars>>

\* lines 238-243 and 31-36: the body's children; off-line, the embedder starts
Serialize ==
  /\ pc = "serialize"
  /\ body_content' = body
  /\ IF offline
     THEN pc' = "embed_css" /\ todo' = StylesheetPlaces(head_content)
     ELSE pc' = "generate" /\ UNCHANGED todo
  /\ UNCHANGED <<mainVars, title_text, head, body, head_content, css_content, font_urls,
                 fetches, html, out_file, clientVars>>

Fetch(kind, place, tok, url, data) ==
  [kind |-> kind, place |-> place, tok |-> tok, url |-> url, data |-> data]

\* lines 36-49: one stylesheet link
EmbedStylesheet ==
  /\ pc = "embed_css" /\ todo # <<>>
  /\ LET i == Head(todo)
         link == head_content[i]
     IN  \E css_data \in Downloads("css") :
           /\ head_content' = [head_content EXCEPT ![i] = EmbedStylesheetElement(link, css_data)]
           /\ fetches' = Append(fetches, Fetch("css", i, 0, link.href, css_data))
  /\ todo' = Tail(todo)
  /\ UNCHANGED <<pc, mainVars, title_text, head, body, body_content, css_content, font_urls,
                 html, out_file, clientVars>>

\* line 53: the loop over the images starts
StylesheetsDone ==
  /\ pc = "embed_css" /\ todo = <<>>
  /\ pc' = "embed_img"
  /\ todo' = ImagePlaces(body_content)
  /\ UNCHANGED <<mainVars, treeVars, css_content, font_urls, fetches, html, out_file, clientVars>>

\* lines 53-71: one image
EmbedImage ==
  /\ pc = "embed_img" /\ todo # <<>>
  /\ LET i == Head(todo)
         img == body_content[i]
     IN  \E img_data \in Downloads("img") :
           /\ body_content' = [body_content EXCEPT ![i] = EmbedImageElement(img, img_data)]
           /\ fetches' = Append(fetches, Fetch("img", i, 0, img.src, img_data))
  /\ todo' = Tail(todo)
  /\ UNCHANGED <<pc, mainVars, title_text, head, body, head_content, css_content, font_urls,
                 html, out_file, clientVars>>

\* line 75: the loop over the style elements starts
ImagesDone ==
  /\ pc = "embed_img" /\ todo = <<>>
  /\ pc' = "embed_fonts"
  /\ todo' = StylePlaces(head_content)
  /\ UNCHANGED <<mainVars, treeVars, css_content, font_urls, fetches, html, out_file, clientVars>>

\* lines 75-79: one style element; one without text is passed over
ScanStyle ==
  /\ pc = "embed_fonts" /\ todo # <<>>
  /\ LET style == head_content[Head(todo)]
     IN  IF style.css # <<>>
         THEN /\ css_content' = style.css
              /\ font_urls' = FontUrls(style.css)
              /\ pc' = "font_loop"
              /\ UNCHANGED todo
         ELSE /\ todo' = Tail(todo)
              /\ UNCHANGED <<pc, css_content, font_urls>>
  /\ UNCHANGED <<mainVars, treeVars, fetches, html, out_file, clientVars>>

\* the places, in a style text, of the references the pattern of line 79 matches
FontPlaces(css) == SelectSeq([i \in 1..Len(css) |-> i], LAMBDA i : FontRegexMatch(css[i]))

\* lines 80-106: one font url of the style
EmbedFont ==
  /\ pc = "font_loop" /\ font_urls # <<>>
  /\ LET font_url == Head(font_urls)
         style == head_content[Head(todo)]
         n == Len(FontUrls(style.css)) - Len(font_urls) + 1
     IN  IF StartsWith(font_url, DATA_COLON)
         THEN UNCHANGED <<css_content, fetches>>
         ELSE \E font_data \in Downloads("font") :
                /\ css_content' = EmbedFontUrl(css_content, font_url, font_data)
                /\ fetches' = Append(fetches, Fetch("font", Head(todo), FontPlaces(style.css)[n],
                                                    FullFontUrl(font_url), font_data))
  /\ font_urls' = Tail(font_urls)
  /\ UNCHANGED <<pc, mainVars, treeVars, todo, html, out_file, clientVars>>

\* line 108: style.string = css_content
StoreStyle ==
  /\ pc = "font_loop" /\ font_urls = <<>>
  /\ head_content' = [head_content EXCEPT ![Head(todo)].css = css_content]
  /\ todo' = Tail(todo)
  /\ pc' = "embed_fonts"
  /\ UNCHANGED <<mainVars, title_text, head, body, body_content, css_content, font_urls,
                 fetches, html, out_file, clientVars>>

\* lines 110 and 243-250: the embedder returns
FontsDone ==
  /\ pc = "embed_fonts" /\ todo = <<>>
  /\ pc' = "generate"
  /\ UNCHANGED <<mainVars, treeVars, embedVars, html, out_file, clientVars>>

\* line 524
Generate ==
  /\ pc = "generate"
  /\ html' = GenerateHtml(head_content, body_content)
  /\ pc' = "write"
  /\ UNCHANGED <<mainVars, treeVars, embedVars, out_file, clientVars>>

\* lines 526-535
WriteOutput ==
  /\ pc = "write"
  /\ out_file' = <<[path |-> output_file, content |-> html]>>
  /\ pc' = "exit"
  /\ exit_status' = 0
  /\ UNCHANGED <<argv, page, input_source, output_file, offline, source_url, treeVars,
                 embedVars, html, clientVars>>

\* ------------------------------------------- the document in the browser

\* The browser reads the written document; its one script runs when it parses.
PageLoad ==
  /\ pc = "exit" /\ exit_status = 0
  /\ pc' = "browsing"
  /\ scriptLoaded' = ScriptParses
  /\ UNCHANGED <<mainVars, treeVars, embedVars, html, out_file, pendingUrl, modalActive,
                 targetLink, modalHeading, opened, lastShown, dismissed, scroll>>

\* the document of the written file
Document == out_file[1].content

\* the first argument of the call an onclick text makes: the quoted text that
\* follows "showBoundaryWarning('"; q is the place of the quote that closes it
OnclickUrlAt(rest, q) == Take(rest, q - 1)
OnclickUrl(onclick) == OnclickUrlAt(Drop(onclick, 2), Find(Drop(onclick, 2), "'"))

\* the second argument: the text between the next pair of quotes
OnclickTypeAt(rest, q) == rest[q + 3]
OnclickType(onclick) == OnclickTypeAt(Drop(onclick, 2), Find(Drop(onclick, 2), "'"))

\* lines 258-274: the overlay shows when it has the class 'active'; without the
\* interception stylesheet nothing hides it
ModalVisible == modalActive \/ BoundaryCss \notin Range(Document)

\* lines 406-419: showBoundaryWarning(url, type)
ShowBoundaryWarning(url, type) ==
  /\ pendingUrl' = url
  /\ modalHeading' = IF type \in {"wikipedia", "external"} THEN type ELSE modalHeading
  /\ targetLink' = url
  /\ modalActive' = TRUE

\* lines 421-424: closeModal()
CloseModal ==
  /\ modalActive' = FALSE
  /\ pendingUrl' = Null

\* a click on a boundary marker runs its onclick text (lines 216, 222); the call
\* throws when the script did not run
ClickMarker ==
  /\ pc = "browsing"
  /\ \E i \in 1..Len(Document) :
       /\ Document[i].onclick # Absent
       /\ lastShown' = Document[i].boundary
       /\ IF scriptLoaded
          THEN ShowBoundaryWarning(OnclickUrl(Document[i].onclick), OnclickType(Document[i].onclick))
          ELSE UNCHANGED <<pendingUrl, modalHeading, targetLink, modalActive>>
  /\ dismissed' = FALSE
  /\ UNCHANGED <<pc, mainVars, treeVars, embedVars, html, out_file, scriptLoaded, opened, scroll>>

\* line 397: the STAY HERE button
ClickStay ==
  /\ pc = "browsing" /\ ModalVisible
  /\ IF scriptLoaded THEN CloseModal ELSE UNCHANGED <<modalActive, pendingUrl>>
  /\ dismissed' = TRUE
  /\ UNCHANGED <<pc, mainVars, treeVars, embedVars, html, out_file, scriptLoaded, targetLink,
                 modalHeading, opened, lastShown, scroll>>

\* lines 398 and 426-431: the TRAVERSE BOUNDARY button, proceedToLink()
ClickTraverse ==
  /\ pc = "browsing" /\ ModalVisible
  /\ Len(opened) < MaxOpens
  /\ IF scriptLoaded /\ pendingUrl # Null /\ pendingUrl # <<>>
     THEN opened' = Append(opened, pendingUrl) /\ CloseModal
     ELSE UNCHANGED <<opened, modalActive, pendingUrl>>
  /\ dismissed' = TRUE
  /\ UNCHANGED <<pc, mainVars, treeVars, embedVars, html, out_file, scriptLoaded, targetLink,
                 modalHeading, lastShown, scroll>>

\* lines 449-453: the Escape key
EscapeKey ==
  /\ pc = "browsing"
  /\ IF scriptLoaded THEN CloseModal ELSE UNCHANGED <<modalActive, pendingUrl>>
  /\ dismissed' = TRUE
  /\ UNCHANGED <<pc, mainVars, treeVars, embedVars, html, out_file, scriptLoaded, targetLink,
                 modalHeading, opened, lastShown, scroll>>

\* lines 456-460: a click on the overlay, outside the modal
OverlayClick ==
  /\ pc = "browsing" /\ ModalVisible
  /\ IF scriptLoaded THEN CloseModal ELSE UNCHANGED <<modalActive, pendingUrl>>
  /\ dismissed' = TRUE
  /\ UNCHANGED <<pc, mainVars, treeVars, embedVars, html, out_file, scriptLoaded, targetLink,
                 modalHeading, opened, lastShown, scroll>>

\* lines 434-446: a click on a link whose href starts with '#': the script
\* scrolls smoothly, without it the browser jumps
HashLinkClick ==
  /\ pc = "browsing"
  /\ \E i \in 1..Len(Document) :
       Document[i].tag = "a" /\ Document[i].href # Absent /\ StartsWith(Document[i].href, <<"#">>)
  /\ scroll' = IF scriptLoaded THEN "smooth" ELSE "jump"
  /\ UNCHANGED <<pc, mainVars, treeVars, embedVars, html, out_file, scriptLoaded, pendingUrl,
                 modalActive, targetLink, modalHeading, opened, lastShown, dismissed>>

Next ==
  \/ ParseArgs \/ AcquireInput
  \/ ProcessHead \/ CleanBody \/ ProcessLinks \/ ProcessImages \/ Serialize
  \/ EmbedStylesheet \/ StylesheetsDone \/ EmbedImage \/ ImagesDone
  \/ ScanStyle \/ EmbedFont \/ StoreStyle \/ FontsDone
  \/ Generate \/ WriteOutput
  \/ PageLoad \/ ClickMarker \/ ClickStay \/ ClickTraverse \/ EscapeKey \/ OverlayClick
  \/ HashLinkClick

Spec == Init /\ [][Next]_vars

\* ------------------------------------------------------------- properties

\* process_wikipedia_html has returned (and, off-line, the embedder too)
Processed == pc \in {"generate", "write", "browsing"} \/ (pc = "exit" /\ exit_status = 0)

\* the link loop of lines 206-226 has run
LinksRewritten == pc \notin {"main", "acquire", "process", "clean", "links"} /\ source_url # <<>>

\* the image loop of lines 229-235 has run
ImagesRewritten == LinksRewritten /\ pc # "images"

\* the head loops of lines 130-159 have run
HeadRewritten == pc \notin {"main", "acquire", "process"} /\ source_url # <<>>

IsAnchorFrom(e) == e.tag = "a" /\ e.orig_href # Absent

\* an absolute or scheme-relative destination that is neither a fragment nor an article path
IsExternalHref(h) ==
  /\ HasScheme(h) \/ StartsWith(h, <<"/", "/">>)
  /\ ~StartsWith(h, <<"#">>) /\ ~StartsWith(h, WIKI_PREFIX)

ResolvedExternal(h) == IF StartsWith(h, <<"/", "/">>) THEN HTTPS_COLON \o h ELSE h

\* a relative reference: no scheme, and none of the three special prefixes
IsRelativeHref(h) ==
  /\ ~HasScheme(h) /\ ~StartsWith(h, <<"#">>)
  /\ ~StartsWith(h, WIKI_PREFIX) /\ ~StartsWith(h, <<"/", "/">>)

HasMarker(e, url, type) ==
  /\ e.href = Absent
  /\ e.boundary = url
  /\ e.onclick # Absent /\ OnclickUrl(e.onclick) = url /\ OnclickType(e.onclick) = type

\* C1 (as claimed): every body anchor whose href is absolute (has a scheme) or
\* scheme-relative, and starts with neither '#' nor '/wiki/', ends with no href
\* and a boundary marker naming the resolved destination and category 'external'.
C1_ExternalAnchorsIntercepted ==
  LinksRewritten =>
    \A i \in 1..Len(body) :
      (IsAnchorFrom(body[i]) /\ IsExternalHref(body[i].orig_href))
        => HasMarker(body[i], ResolvedExternal(body[i].orig_href), "external")

\* C2: every body anchor whose href starts with '/wiki/' ends with no href, the
\* destination 'https://en.wikipedia.org' + href whatever the source URL is, and
\* category 'wikipedia'.
C2_WikiAnchorsIntercepted ==
  LinksRewritten =>
    \A i \in 1..Len(body) :
      (IsAnchorFrom(body[i]) /\ StartsWith(body[i].orig_href, WIKI_PREFIX))
        => HasMarker(body[i], WIKI_ORIGIN \o body[i].orig_href, "wikipedia")

C2_Witness ==
  /\ Processed /\ source_url = URL_SITE
  /\ \E i \in 1..Len(body_content) :
       /\ IsAnchorFrom(body_content[i]) /\ body_content[i].orig_href = HREF_WIKI
       /\ body_content[i].href = Absent

\* C3: every body anchor whose href starts with '#' keeps exactly that href and
\* gains neither a data-boundary-url nor an onclick handler.
C3_FragmentAnchorsUnchanged ==
  LinksRewritten =>
    \A i \in 1..Len(body) :
      (IsAnchorFrom(body[i]) /\ StartsWith(body[i].orig_href, <<"#">>))
        => /\ body[i].href = body[i].orig_href
           /\ body[i].boundary = Absent
           /\ body[i].onclick = Absent

C3_Witness ==
  /\ Processed
  /\ \E i \in 1..Len(body_content) :
       /\ IsAnchorFrom(body_content[i]) /\ body_content[i].orig_href = HREF_FRAGMENT
       /\ body_content[i].href = HREF_FRAGMENT

\* C4 (as claimed): every body anchor whose href is relative keeps a real href,
\* the resolution of the original against the source URL, and gains no marker;
\* file names that begin with 'http' included.
C4_RelativeAnchorsResolved ==
  LinksRewritten =>
    \A i \in 1..Len(body) :
      (IsAnchorFrom(body[i]) /\ IsRelativeHref(body[i].orig_href))
        => /\ body[i].href = UrlJoin(source_url, body[i].orig_href)
           /\ body[i].boundary = Absent
           /\ body[i].onclick = Absent

\* the destinations of the boundary markers of the document in the browser
MarkerDestinations == {Document[i].boundary : i \in {j \in 1..Len(Document) : Document[j].onclick # Absent}}

Embedded == offline /\ Processed

\* the reference a fetch was made for is as it was before the embedder ran
Unmodified(f) ==
  IF f.kind = "css"
  THEN /\ head_content[f.place].tag = "link" /\ head_content[f.place].rel = "stylesheet"
       /\ head_content[f.place].href = f.url
  ELSE IF f.kind = "img" THEN body_content[f.place].src = f.url
  ELSE head_content[f.place].css[f.tok] = head_content[f.place].orig_css[f.tok]

\* the reference a fetch was made for holds what the fetch returned
IsEmbedded(f) ==
  IF f.kind = "css"
  THEN /\ head_content[f.place].tag = "style"
       /\ head_content[f.place].orig_css = DecodeCss(f.data)
  ELSE IF f.kind = "img"
  THEN body_content[f.place].src = DataUri(ImageMediaType(f.url), f.data)
  ELSE head_content[f.place].css[f.tok].url
         = DataUri(FontMediaType(head_content[f.place].orig_css[f.tok].url), f.data)

\* the fetch returned something the embedder can use
Usable(f) == Truthy(f.data) /\ (f.kind = "css" => Utf8(f.data))

\* a step of the embedder, or of what main does after it
EmbedStep ==
  \/ EmbedStylesheet \/ StylesheetsDone \/ EmbedImage \/ ImagesDone \/ ScanStyle
  \/ EmbedFont \/ StoreStyle \/ FontsDone \/ Generate \/ WriteOutput

\* Once the embedder has started, the interpreter runs it and the rest of main
\* to the end; what the reader does in the browser is up to the reader.
FairSpec == Spec /\ WF_vars(EmbedStep)

\* a run that reached the embedder ends with status 0 and the output written
Written == pc \in {"exit", "browsing"} /\ exit_status = 0 /\ out_file # <<>>

\* what holds of the fetches once the embedder has returned, as claimed
FailedLeftEmbeddedDone ==
  Embedded =>
    \A k \in 1..Len(fetches) :
      /\ fetches[k].data = None => Unmodified(fetches[k])
      /\ Usable(fetches[k]) => IsEmbedded(fetches[k])

SameFontFetched(f) ==
  \E k \in 1..Len(fetches) :
    /\ fetches[k].kind = "font" /\ fetches[k].place = f.place
    /\ fetches[k].url = f.url /\ Truthy(fetches[k].data)

C7_NoOutputWithoutInput ==
  /\ out_file # <<>> =>
       /\ source_url # <<>> /\ html # <<>>
       /\ out_file[1].content = GenerateHtml(head_content, body_content)
       /\ pc \in {"exit", "browsing"} /\ exit_status = 0
  /\ (pc = "exit" /\ source_url = <<>>) => (exit_status = 1 /\ out_file = <<>>)
  /\ source_url = <<>> => pc \in {"main", "acquire", "exit"}

C7_Witness ==
  pc = "exit" /\ input_source # <<>> /\ source_url = <<>> /\ exit_status = 1 /\ out_file = <<>>

\* a url(...) reference to a font file that is not a data URI
IsFontReference(tok) ==
  /\ tok.kind = "url" /\ ~StartsWith(tok.url, DATA_COLON)
  /\ \/ EndsWith(tok.url, <<".", "w", "o", "f", "f">>)
     \/ EndsWith(tok.url, <<".", "w", "o", "f", "f", "2">>)
     \/ EndsWith(tok.url, <<".", "t", "t", "f">>)
     \/ EndsWith(tok.url, <<".", "o", "t", "f">>)

\* the fetches made for the reference at place t of the style at place p
FetchesFor(p, t) ==
  {k \in 1..Len(fetches) : fetches[k].kind = "font" /\ fetches[k].place = p /\ fetches[k].tok = t}

\* C8 (as claimed): off-line, every non-data url(...) of a style whose path ends
\* in .woff, .woff2, .ttf or .otf is detected (fetched) in each of the three
\* quotings, a fetch that returns data puts the data URI of the font's media
\* type in its place, and no other CSS text is altered.
C8_FontReferencesSubstituted ==
  Embedded =>
    \A p \in 1..Len(head_content) :
      head_content[p].tag = "style" =>
        \A t \in 1..Len(head_content[p].orig_css) :
          IF IsFontReference(head_content[p].orig_css[t])
          THEN /\ FetchesFor(p, t) # {}
               /\ \A k \in FetchesFor(p, t) : Truthy(fetches[k].data) => IsEmbedded(fetches[k])
          ELSE FontRegexMatch(head_content[p].orig_css[t])
               \/ head_content[p].css[t] = head_content[p].orig_css[t]

\* the URL Resolver of the specification
Resolve(url, base) ==
  IF StartsWith(url, <<"#">>) THEN url
  ELSE IF StartsWith(url, <<"/", "/">>) THEN HTTPS_COLON \o url
  ELSE IF StartsWith(url, <<"/">>) THEN WIKI_ORIGIN \o url
  ELSE IF HasScheme(url) THEN url
  ELSE UrlJoin(base, url)

\* C9 (as claimed): every link href and every script src of the head is
\* overwritten with resolve(url, source_url) of the URL Resolver.
C9_HeadUrlsResolved ==
  HeadRewritten =>
    \A i \in 1..Len(head) :
      /\ (head[i].tag = "link" /\ head[i].orig_href # Absent)
           => head[i].href = Resolve(head[i].orig_href, source_url)
      /\ (head[i].tag = "script" /\ head[i].orig_src # Absent)
           => head[i].src = Resolve(head[i].orig_src, source_url)

\* C10 (as claimed): every body img that had a src has an absolute src:
\* 'https:' + src for a scheme-relative one, the resolution against the source
\* URL for a relative one, the src itself for an absolute one.
C10_ImageSourcesAbsolute ==
  ImagesRewritten =>
    \A i \in 1..Len(body) :
      (body[i].tag = "img" /\ body[i].orig_src # Absent)
        => /\ HasScheme(body[i].src)
           /\ body[i].src = IF StartsWith(body[i].orig_src, <<"/", "/">>)
                            THEN HTTPS_COLON \o body[i].orig_src
                            ELSE IF HasScheme(body[i].orig_src) THEN body[i].orig_src
                            ELSE UrlJoin(source_url, body[i].orig_src)
\* the block-list of the specification
BlockList == {ANALYTICS, TRACKER, GOOGLE}

\* the src or the inline text of a script holds a word of the block-list,
\* whatever the case of its letters
IsBlocked(e) ==
  \E word \in BlockList :
    Contains(Lower(SrcOrEmpty(e)), word) \/ Contains(Lower(e.text), word)

\* the script e of the input is among the elements els
ScriptKept(e, els) ==
  \E i \in 1..Len(els) :
    els[i].tag = "script" /\ els[i].orig_src = e.orig_src /\ els[i].text = e.text

\* the scripts of the input's body that lie in no element removed for another reason
BodyScripts ==
  {page.body[i] : i \in {j \in 1..Len(page.body) :
                           page.body[j].tag = "script" /\ page.body[j].inside = ""}}

\* the scripts of the input's head
HeadScripts ==
  {page.head[i] : i \in {j \in 1..Len(page.head) : page.head[j].tag = "script"}}

\* C11 (as claimed): a body script is removed exactly when its src or its
\* inline text holds, in any case, a word of the block-list analytics, tracker,
\* google; a body script that stays has an absolute src if it has one and its
\* text as it was; no head script is removed.
C11_ScriptsRemovedByBlockList ==
  LinksRewritten =>
    /\ \A e \in BodyScripts : ScriptKept(e, body) <=> ~IsBlocked(e)
    /\ \A i \in 1..Len(body) :
         (body[i].tag = "script" /\ ~body[i].inHead /\ body[i].src # Absent)
           => HasScheme(body[i].src)
    /\ page.hasHead => \A e \in HeadScripts : ScriptKept(e, head)

\* how many times x stands in the sequence els
Count(els, x) == Cardinality({i \in 1..Len(els) : els[i] = x})

\* the tags the template of lines 467-473 writes itself
TemplateTags ==
  {El("<!DOCTYPE html>"), El("<html>"), El("<body>"), El("</body>"), El("</html>")}

\* the three fixed parts generate_html adds
FixedAssets == {BoundaryCss, BoundaryModal, BoundaryScript}

\* C12 (as claimed): whatever record process_wikipedia_html returned, one with
\* an empty head fragment included, the document generate_html returns holds the
\* interception stylesheet once, the modal markup once and the interception
\* script once, and, these and the template's own tags apart, exactly the
\* rewritten head followed by the rewritten body.
C12_FixedAssetsExactlyOnce ==
  html # <<>> =>
    /\ Count(html, BoundaryCss) = 1
    /\ Count(html, BoundaryModal) = 1
    /\ Count(html, BoundaryScript) = 1
    /\ SelectSeq(html, LAMBDA e : e \notin TemplateTags \cup FixedAssets)
         = head_content \o body_content

\* the arguments after the input that are not the flag
OutputArgs == SelectSeq(SubSeq(argv, 3, Len(argv)), LAMBDA a : a # OFFLINE_FLAG)

\* C13 (as claimed): for every argument list with an input, '--offline' only
\* switches the embedder on and is never the destination: with no output file
\* given the document goes to 'fake_wiki_page.html', with or without the flag
\* and wherever the flag stands after the input.
C13_FlagIsNeverDestination ==
  (pc # "main" /\ Len(argv) >= 2 /\ argv[2] # OFFLINE_FLAG) =>
    /\ offline <=> (OFFLINE_FLAG \in Range(argv))
    /\ ~offline => fetches = <<>>
    /\ output_file # OFFLINE_FLAG
    /\ OutputArgs = <<>> => output_file = DEFAULT_OUTPUT
    /\ out_file # <<>> => out_file[1].path = output_file
====
